---- MODULE Spec2Model ----
(***************************************************************************)
(* Model of abac-mongo-cli: the start-up sequence of abac.initialize_pdp   *)
(* (migrations, bulk load of the policy directory) and the menu loop of    *)
(* main.shell, which asks the Py-ABAC PDP for a verdict, logs it to        *)
(* cli.log and only then hands the operation to perform_request.           *)
(*                                                                         *)
(* The Py-ABAC library itself (Policy, MongoStorage, Migrator, PDP) is not *)
(* part of the sources; its behaviour is modelled from sections 3 and 4 of *)
(* the specification.                                                      *)
(***************************************************************************)
EXTENDS Integers, Sequences, FiniteSets, TLC

\* ------------------------------------------------------------------------
\* Bounds of the model
\* ------------------------------------------------------------------------
MaxFiles == 2        \* *.json files in the policy directory
MaxChoices == 2      \* menu choices taken over the whole behaviour
MaxRuns == 2         \* process runs (start-ups) over the whole behaviour
NumMigrations == 1   \* migrations in the library's MongoMigrationSet

\* ------------------------------------------------------------------------
\* Constants of the program
\* ------------------------------------------------------------------------
\* main.py: the reserved collection the admin aliases 5 and 6 act on
PolicyCollection == "py_abac_policies"

\* collections typed at the "Collection name:" prompt
DataCollections == {"orders"}

\* choice 4 mapped to the action of choice 1
action_map_typo ==
  [c \in {"1", "2", "3", "4"} |->
     CASE c = "1" -> <<"read", "find">>
       [] c = "2" -> <<"create", "insert_one">>
       [] c = "3" -> <<"update", "update_many">>
       [] c = "4" -> <<"read", "delete_many">>]

\* main.py:50-55
action_map ==
  [c \in {"1", "2", "3", "4"} |->
     CASE c = "1" -> <<"read", "find">>
       [] c = "2" -> <<"create", "insert_one">>
       [] c = "3" -> <<"update", "update_many">>
       [] c = "4" -> <<"delete", "delete_many">>]

\* ------------------------------------------------------------------------
\* Policies (Py-ABAC Policy documents)
\* ------------------------------------------------------------------------
Uids == {"p1", "p2"}
Effects == {"allow", "deny"}
Priorities == {5, 10}
AnyTarget == "*"
RoleTargets == {AnyTarget, "ordersManager"}
ResourceTargets == {AnyTarget, PolicyCollection}

Policies ==
  [uid : Uids, effect : Effects, priority : Priorities,
   role : RoleTargets, resource : ResourceTargets]

\* the content of a file that json.load or Policy.from_json rejects
Malformed == [uid |-> "?", effect |-> "?", priority |-> 0,
              role |-> "?", resource |-> "?"]

FileNames == 1..MaxFiles

\* ------------------------------------------------------------------------
\* Payloads and what is typed at the prompts
\* ------------------------------------------------------------------------
NoId == "<none>"
EmptyPayload == [_id |-> NoId]                    \* the JSON object {}
IdPayload(u) == [_id |-> u]                       \* the JSON object {"_id": u}
NoPayload == [_id |-> "<invalid>"]

RawEmpty == [kind |-> "empty", doc |-> EmptyPayload]
RawInvalid == [kind |-> "invalid", doc |-> NoPayload]
RawJson(d) == [kind |-> "json", doc |-> d]

\* what is typed at "Enter JSON payload (filter or document):"
RawInputs == {RawEmpty, RawInvalid}

\* what is typed at "Enter policy ID:"; QuoteId contains a double quote
QuoteId == "p\"1"
PolicyIdInputs == Uids \cup {QuoteId}

\* main.py:288  raw = f'{{"_id": "{...}"}}'
RawForPolicyId(s) ==
  IF s = QuoteId THEN RawInvalid ELSE RawJson(IdPayload(s))

\* main.py:294  payload = json.loads(raw) if raw else {}
json_loads_ok(raw) == raw.kind # "invalid"
json_loads(raw) == IF raw.kind = "empty" THEN EmptyPayload ELSE raw.doc

\* subjects produced by login_menu
Subjects ==
  {[id |-> "admin", role |-> "admin"], [id |-> "1", role |-> "ordersManager"]}

NoSubject == [id |-> "-", role |-> "-"]

\* ------------------------------------------------------------------------
\* Py-ABAC: policy matching and the evaluation algorithms of the PDP
\* ------------------------------------------------------------------------

\* a policy is a candidate iff its targets match the request
Fits(p, rq) ==
  /\ p.role = AnyTarget \/ p.role = rq.role
  /\ p.resource = AnyTarget \/ p.resource = rq.resource

\* every order in which the storage may enumerate a set of policies
Orders(S) ==
  {s \in [1..Cardinality(S) -> S] : \A i, j \in DOMAIN s : s[i] = s[j] => i = j}

RECURSIVE max_priority(_, _)
max_priority(seq, m) ==
  IF seq = <<>> THEN m
  ELSE max_priority(Tail(seq),
                    IF Head(seq).priority > m THEN Head(seq).priority ELSE m)

_deny_overrides(seq) ==
  /\ seq # <<>>
  /\ \A i \in DOMAIN seq : seq[i].effect = "allow"

_allow_overrides(seq) ==
  \E i \in DOMAIN seq : seq[i].effect = "allow"

AtPriority(seq, m) ==
  LET Test(p) == p.priority = m IN SelectSeq(seq, Test)

_highest_priority(seq) ==
  IF seq = <<>> THEN FALSE
  ELSE _deny_overrides(AtPriority(seq, max_priority(seq, -1)))

\* the PDP built with the library's default algorithm
Algorithm_default == "deny_overrides"

\* the PDP built with EvaluationAlgorithm.ALLOW_OVERRIDES
Algorithm_allow == "allow_overrides"

\* abac.py:176  PDP(storage, EvaluationAlgorithm.HIGHEST_PRIORITY)
Algorithm == "highest_priority"

\* PDP.is_allowed: filter the stored policies, in the storage's order, down
\* to those that fit the request, then combine them with the algorithm the
\* PDP was built with
is_allowed(order, rq) ==
  LET Test(p) == Fits(p, rq)
      cands == SelectSeq(order, Test)
  IN CASE Algorithm = "highest_priority" -> _highest_priority(cands)
       [] Algorithm = "deny_overrides" -> _deny_overrides(cands)
       [] Algorithm = "allow_overrides" -> _allow_overrides(cands)

\* ------------------------------------------------------------------------
\* Py-ABAC: storage and migrations
\* ------------------------------------------------------------------------

\* Policy.from_json raises on a document that is not a policy
from_json_ok(content) == content \in Policies

\* MongoStorage.add raises PolicyExistsError when the uid is taken
storage_add_ok(st, p) == \A q \in st : q.uid # p.uid
storage_add(st, p) == st \cup {p}

\* Migrator.up: every migration above the stored version is applied
Migrator_up(v) == IF v < NumMigrations THEN NumMigrations ELSE v

\* col.delete_many(payload) on the policy collection
Matches(p, payload) == payload._id = NoId \/ payload._id = p.uid
delete_many(st, payload) == {p \in st : ~Matches(p, payload)}

\* ------------------------------------------------------------------------
\* State
\* ------------------------------------------------------------------------
VARIABLES
  dir,        \* the policy directory: file name -> content
  store,      \* MongoDB collection py_abac_policies: the stored policies
  version,    \* the migration version recorded in MongoDB
  pc,         \* position of the process in shell()
  subject,    \* main_attrs of the logged-in user
  pending,    \* files load_policies has still to visit
  req,        \* the request being handled by the menu loop
  decision,   \* pdp.is_allowed(req)
  cliLog,     \* cli.log: the records written through cli_logger
  abacLog,    \* abac.log: the (run, file) load_policies reported as skipped
  evalHist,   \* history: every PDP evaluation, in order
  execCalls,  \* history: every call of perform_request, in order
  nchoices,   \* history: menu choices taken so far
  runs,       \* history: process runs started so far
  settled     \* history: the store is as the last completed start-up left it

vars == <<dir, store, version, pc, subject, pending, req, decision, cliLog,
          abacLog, evalHist, execCalls, nchoices, runs, settled>>

NoReq == [n |-> 0, role |-> "-", menu |-> "-", action |-> "-", op |-> "-",
          resource |-> "-", payload |-> NoPayload]

LogRec(kind, rq, verdict) ==
  [kind |-> kind, n |-> rq.n, action |-> rq.action, resource |-> rq.resource,
   payload |-> rq.payload, verdict |-> verdict]

\* a fresh database and a process about to enter shell()
InitProcess ==
  /\ version = 0
  /\ pc = "start"
  /\ subject = NoSubject
  /\ pending = {}
  /\ req = NoReq
  /\ decision = FALSE
  /\ cliLog = <<>>
  /\ abacLog = {}
  /\ evalHist = <<>>
  /\ execCalls = <<>>
  /\ nchoices = 0
  /\ runs = 1
  /\ settled = FALSE

\* what a file of the policy directory may hold
Contents ==
  {Malformed} \cup
  {p \in Policies :
     p.priority = 5 /\ p.role = AnyTarget /\ p.resource = AnyTarget}

\* the files of the directory the whole program is run on
ShellContents ==
  {Malformed,
   [uid |-> "p1", effect |-> "allow", priority |-> 5,
    role |-> AnyTarget, resource |-> AnyTarget],
   [uid |-> "p2", effect |-> "deny", priority |-> 5,
    role |-> AnyTarget, resource |-> AnyTarget]}

Init ==
  /\ dir \in [FileNames -> ShellContents]
  /\ store = {}
  /\ InitProcess

\* the process ends: what it held in memory is gone
ProcessEnds(how) ==
  /\ pc' = how
  /\ subject' = NoSubject
  /\ pending' = {}
  /\ req' = NoReq
  /\ decision' = FALSE

\* ------------------------------------------------------------------------
\* shell(): login and connection (main.py:250-263)
\* ------------------------------------------------------------------------
Login ==
  /\ pc = "start"
  /\ \E s \in Subjects :
       /\ subject' = s
       /\ cliLog' = Append(cliLog, LogRec("login", NoReq, "-"))
  /\ pc' = "connecting"
  /\ UNCHANGED <<dir, store, version, pending, req, decision, abacLog,
                 evalHist, execCalls, nchoices, runs, settled>>

\* connection(): the ping succeeded
Connect ==
  /\ pc = "connecting"
  /\ pc' = "init"
  /\ UNCHANGED <<dir, store, version, subject, pending, req, decision, cliLog,
                 abacLog, evalHist, execCalls, nchoices, runs, settled>>

\* connection(): MongoClient or the ping raised; sys.exit(1)
ConnectFail ==
  /\ pc = "connecting"
  /\ cliLog' = Append(cliLog, LogRec("connect_error", NoReq, "-"))
  /\ ProcessEnds("exited")
  /\ UNCHANGED <<dir, store, version, abacLog, evalHist, execCalls, nchoices,
                 runs, settled>>

\* ------------------------------------------------------------------------
\* initialize_pdp (abac.py:150-176)
\* ------------------------------------------------------------------------

\* Migrator(MongoMigrationSet(storage)).up() returned
MigrateUp ==
  /\ pc = "init"
  /\ version' = Migrator_up(version)
  /\ pending' = DOMAIN dir
  /\ pc' = "loading"
  /\ UNCHANGED <<dir, store, subject, req, decision, cliLog, abacLog,
                 evalHist, execCalls, nchoices, runs, settled>>

\* the failure of Migrator(...).up() caught and passed over: the load follows
MigrateFail_swallowed ==
  /\ pc = "init"
  /\ \E v \in version..NumMigrations :
       /\ v = version \/ v < NumMigrations
       /\ version' = v
  /\ pending' = DOMAIN dir
  /\ pc' = "loading"
  /\ UNCHANGED <<dir, store, subject, req, decision, cliLog, abacLog,
                 evalHist, execCalls, nchoices, runs, settled>>

\* Migrator(...).up() raised: nothing in initialize_pdp or shell catches it
MigrateFail ==
  /\ pc = "init"
  /\ \E v \in version..NumMigrations :
       /\ v = version \/ v < NumMigrations
       /\ version' = v
  /\ ProcessEnds("crashed")
  /\ UNCHANGED <<dir, store, cliLog, abacLog, evalHist, execCalls, nchoices,
                 runs, settled>>

\* the record logger.error leaves in abac.log for a skipped file
Skipped(f) == [run |-> runs, file |-> f]

\* the try wrapped around the whole loop: the first bad file ends the load
load_file_abort(st, pend, log, f) ==
  IF from_json_ok(dir[f]) /\ storage_add_ok(st, dir[f])
  THEN [store |-> storage_add(st, dir[f]), pending |-> pend \ {f},
        log |-> log]
  ELSE [store |-> st, pending |-> {},
        log |-> log \cup {Skipped(f)}]

\* a stored policy of the same uid replaced by the file's
load_file_replace(st, pend, log, f) ==
  IF from_json_ok(dir[f])
  THEN [store |-> {q \in st : q.uid # dir[f].uid} \cup {dir[f]},
        pending |-> pend \ {f}, log |-> log]
  ELSE [store |-> st, pending |-> pend \ {f},
        log |-> log \cup {Skipped(f)}]

\* load_policies: one turn of the for loop over glob.glob(...), for file f
load_file(st, pend, log, f) ==
  IF from_json_ok(dir[f]) /\ storage_add_ok(st, dir[f])
  THEN [store |-> storage_add(st, dir[f]), pending |-> pend \ {f},
        log |-> log]
  ELSE [store |-> st, pending |-> pend \ {f},
        log |-> log \cup {Skipped(f)}]

LoadFile ==
  /\ pc = "loading"
  /\ \E f \in pending :
       LET r == load_file(store, pending, abacLog, f) IN
         /\ store' = r.store
         /\ pending' = r.pending
         /\ abacLog' = r.log
  /\ UNCHANGED <<dir, version, pc, subject, req, decision, cliLog, evalHist,
                 execCalls, nchoices, runs, settled>>

\* load_policies returned; initialize_pdp returns the PDP
LoadDone ==
  /\ pc = "loading"
  /\ pending = {}
  /\ pc' = "menu"
  /\ settled' = TRUE
  /\ UNCHANGED <<dir, store, version, subject, pending, req, decision, cliLog,
                 abacLog, evalHist, execCalls, nchoices, runs>>

\* ------------------------------------------------------------------------
\* shell(): the menu loop (main.py:269-331)
\* ------------------------------------------------------------------------

\* main_menu offers 5 and 6 to the admin only (main.py:276)
ValidChoices(role) ==
  IF role = "admin" THEN {"1", "2", "3", "4", "5", "6"}
  ELSE {"1", "2", "3", "4"}

\* main.py:279-292: the choice, collection and raw payload the loop goes on
\* with, for menu choice c, typed collection col, typed payload raw and
\* typed policy id pid
Prompted(role, c, col, raw, pid) ==
  IF role = "admin" /\ c = "5"
  THEN [choice |-> "1", collection |-> PolicyCollection, raw |-> RawEmpty]
  ELSE IF role = "admin" /\ c = "6"
  THEN [choice |-> "4", collection |-> PolicyCollection,
        raw |-> RawForPolicyId(pid)]
  ELSE [choice |-> c, collection |-> col, raw |-> raw]

\* main.py:300-316: the request built from the prompted values
build_request(n, role, menu, pr) ==
  [n |-> n, role |-> role, menu |-> menu,
   action |-> action_map[pr.choice][1], op |-> action_map[pr.choice][2],
   resource |-> pr.collection, payload |-> json_loads(pr.raw)]

\* choice "0"
Exit ==
  /\ pc = "menu"
  /\ cliLog' = Append(cliLog, LogRec("exit", NoReq, "-"))
  /\ ProcessEnds("exited")
  /\ UNCHANGED <<dir, store, version, abacLog, evalHist, execCalls, nchoices,
                 runs, settled>>

\* a valid choice whose payload json.loads rejects: warning, back to the menu
InvalidJson ==
  /\ pc = "menu"
  /\ nchoices < MaxChoices
  /\ \E c \in ValidChoices(subject.role), col \in DataCollections,
        raw \in RawInputs, pid \in PolicyIdInputs :
       LET pr == Prompted(subject.role, c, col, raw, pid) IN
         /\ ~json_loads_ok(pr.raw)
         /\ cliLog' = Append(cliLog, LogRec("invalid_json", NoReq, "-"))
  /\ nchoices' = nchoices + 1
  /\ UNCHANGED <<dir, store, version, pc, subject, pending, req, decision,
                 abacLog, evalHist, execCalls, runs, settled>>

\* a valid choice with a payload that parses: the request is built
Request ==
  /\ pc = "menu"
  /\ nchoices < MaxChoices
  /\ \E c \in ValidChoices(subject.role), col \in DataCollections,
        raw \in RawInputs, pid \in PolicyIdInputs :
       LET pr == Prompted(subject.role, c, col, raw, pid) IN
         /\ json_loads_ok(pr.raw)
         /\ req' = build_request(nchoices + 1, subject.role, c, pr)
  /\ nchoices' = nchoices + 1
  /\ pc' = "evaluating"
  /\ UNCHANGED <<dir, store, version, subject, pending, decision, cliLog,
                 abacLog, evalHist, execCalls, runs, settled>>

EvalRec(rq, cands, verdict) ==
  [n |-> rq.n, role |-> rq.role, menu |-> rq.menu, action |-> rq.action,
   resource |-> rq.resource,
   payload |-> rq.payload, cands |-> cands, verdict |-> verdict]

\* the admin let through whatever the PDP says
decide_admin_bypass(role, verdict) == verdict \/ role = "admin"

\* main.py:319  what the shell takes as its decision, given the PDP's verdict
decide(role, verdict) == verdict

\* main.py:319  decision = pdp.is_allowed(req)
Evaluate ==
  /\ pc = "evaluating"
  /\ \E order \in Orders(store) :
       /\ decision' = decide(req.role, is_allowed(order, req))
       /\ evalHist' = Append(evalHist,
            EvalRec(req, {p \in store : Fits(p, req)}, is_allowed(order, req)))
  /\ pc' = "decided"
  /\ UNCHANGED <<dir, store, version, subject, pending, req, cliLog, abacLog,
                 execCalls, nchoices, runs, settled>>

\* main.py:319  pdp.is_allowed raised (the storage could not be read):
\* nothing in shell() catches it
EvaluateFail ==
  /\ pc = "evaluating"
  /\ ProcessEnds("crashed")
  /\ UNCHANGED <<dir, store, version, cliLog, abacLog, evalHist, execCalls,
                 nchoices, runs, settled>>

Verdict(d) == IF d THEN "ALLOW" ELSE "DENY"

\* the decision logged in the denial branch only
decision_records_on_deny(rq, d) ==
  IF d THEN <<>> ELSE <<LogRec("decision", rq, Verdict(d))>>

\* the decision logged only when the request is allowed
decision_records_on_allow(rq, d) ==
  IF d THEN <<LogRec("decision", rq, Verdict(d))>> ELSE <<>>

\* main.py:320-323: the records cli_logger.info writes for the decision
decision_records(rq, d) == <<LogRec("decision", rq, Verdict(d))>>

LogDecision ==
  /\ pc = "decided"
  /\ cliLog' = cliLog \o decision_records(req, decision)
  /\ pc' = "logged"
  /\ UNCHANGED <<dir, store, version, subject, pending, req, decision,
                 abacLog, evalHist, execCalls, nchoices, runs, settled>>

\* the denial branch never taken
denied_never(d) == FALSE

\* the test of the denial branch inverted
denied_inverted(d) == d

\* main.py:325  if not decision:
denied(d) == ~d

\* main.py:326-327: report the denial, continue
Deny ==
  /\ pc = "logged"
  /\ denied(decision)
  /\ pc' = "menu"
  /\ UNCHANGED <<dir, store, version, subject, pending, req, decision, cliLog,
                 abacLog, evalHist, execCalls, nchoices, runs, settled>>

ExecRec(rq, ok) ==
  [n |-> rq.n, op |-> rq.op, collection |-> rq.resource,
   payload |-> rq.payload, ok |-> ok]

\* perform_request: what the operation does to the policy collection
execute(st, rq) ==
  IF rq.op = "delete_many" /\ rq.resource = PolicyCollection
  THEN delete_many(st, rq.payload)
  ELSE st

\* perform_request: the records written when the operation succeeds
success_records(rq) ==
  IF rq.op = "find"
  THEN <<LogRec("executing", rq, "-"), LogRec("found", rq, "-")>>
  ELSE <<LogRec("executing", rq, "-")>>

\* main.py:330, perform_request returns True
Perform ==
  /\ pc = "logged"
  /\ ~denied(decision)
  /\ execCalls' = Append(execCalls, ExecRec(req, TRUE))
  /\ cliLog' = cliLog \o success_records(req)
  /\ store' = execute(store, req)
  /\ settled' = (settled /\ execute(store, req) = store)
  /\ pc' = "menu"
  /\ UNCHANGED <<dir, version, subject, pending, req, decision, abacLog,
                 evalHist, nchoices, runs>>

\* the failed operation tried a second time
PerformFail_retry ==
  /\ pc = "logged"
  /\ ~denied(decision)
  /\ execCalls' = execCalls \o <<ExecRec(req, FALSE), ExecRec(req, FALSE)>>
  /\ cliLog' = cliLog \o
       <<LogRec("executing", req, "-"), LogRec("mongo_error", req, "-"),
         LogRec("executing", req, "-"), LogRec("mongo_error", req, "-")>>
  /\ pc' = "menu"
  /\ UNCHANGED <<dir, store, version, subject, pending, req, decision,
                 abacLog, evalHist, nchoices, runs, settled>>

\* main.py:330, the operation raised: perform_request logs it, returns False
PerformFail ==
  /\ pc = "logged"
  /\ ~denied(decision)
  /\ execCalls' = Append(execCalls, ExecRec(req, FALSE))
  /\ cliLog' = cliLog \o
       <<LogRec("executing", req, "-"), LogRec("mongo_error", req, "-")>>
  /\ pc' = "menu"
  /\ UNCHANGED <<dir, store, version, subject, pending, req, decision,
                 abacLog, evalHist, nchoices, runs, settled>>

\* main.py:335-340: Ctrl+C ends the process; it is delivered while the
\* shell waits at a prompt
Interrupt ==
  /\ pc \in {"start", "menu"}
  /\ ProcessEnds("exited")
  /\ UNCHANGED <<dir, store, version, cliLog, abacLog, evalHist, execCalls,
                 nchoices, runs, settled>>

\* the program is started again on the same database and directory
Restart ==
  /\ pc \in {"exited", "crashed"}
  /\ runs < MaxRuns
  /\ runs' = runs + 1
  /\ pc' = "start"
  /\ UNCHANGED <<dir, store, version, subject, pending, req, decision, cliLog,
                 abacLog, evalHist, execCalls, nchoices, settled>>

Next ==
  \/ Login \/ Connect \/ ConnectFail
  \/ MigrateUp \/ MigrateFail \/ LoadFile \/ LoadDone
  \/ Exit \/ InvalidJson \/ Request \/ Evaluate \/ EvaluateFail
  \/ LogDecision \/ Deny \/ Perform \/ PerformFail
  \/ Interrupt

Spec == Init /\ [][Next]_vars

\* ------------------------------------------------------------------------
\* The menu loop alone, entered with any store a start-up may have left
\* ------------------------------------------------------------------------
UniqueUids(st) == \A p, q \in st : p.uid = q.uid => p = q

\* every set of policies with at most one policy per uid
Stores ==
  UNION {{{f[u] : u \in U} :
            f \in {g \in [U -> Policies] : \A u \in U : g[u].uid = u}} :
         U \in SUBSET Uids}

InitMenu ==
  /\ dir = [f \in FileNames |-> Malformed]
  /\ store \in Stores
  /\ version = NumMigrations
  /\ pc = "menu"
  /\ subject \in Subjects
  /\ pending = {}
  /\ req = NoReq
  /\ decision = FALSE
  /\ cliLog = <<LogRec("login", NoReq, "-")>>
  /\ abacLog = {}
  /\ evalHist = <<>>
  /\ execCalls = <<>>
  /\ nchoices = 0
  /\ runs = 1
  /\ settled = TRUE

NextMenu ==
  \/ Exit \/ InvalidJson \/ Request \/ Evaluate \/ EvaluateFail
  \/ LogDecision \/ Deny \/ Perform \/ PerformFail

SpecMenu == InitMenu /\ [][NextMenu]_vars

\* ------------------------------------------------------------------------
\* Start-up alone, over every policy directory, run after run
\* ------------------------------------------------------------------------
InitLoad ==
  /\ dir \in [FileNames -> Contents]
  /\ store \in {{}} \cup {{p} : p \in Contents \ {Malformed}}
  /\ InitProcess

NextLoad ==
  \/ Login \/ Connect \/ MigrateUp \/ MigrateFail \/ LoadFile \/ LoadDone
  \/ Exit \/ Restart

SpecLoad == InitLoad /\ [][NextLoad]_vars

TypeOK ==
  /\ store \subseteq Policies
  /\ version \in 0..NumMigrations
  /\ pending \subseteq FileNames
  /\ nchoices \in 0..MaxChoices
  /\ runs \in 1..MaxRuns
  /\ pc \in {"start", "connecting", "init", "loading", "menu", "evaluating",
             "decided", "logged", "exited", "crashed"}

\* ------------------------------------------------------------------------
\* Properties
\* ------------------------------------------------------------------------
\* the calls of perform_request made for request n
CallsFor(calls, n) == {j \in DOMAIN calls : calls[j].n = n}

\* the decision records cli.log holds for request n
DecisionRecordsFor(log, n) ==
  {k \in DOMAIN log : log[k].kind = "decision" /\ log[k].n = n}

\* ---- one run of the program on a fresh database (Spec) ----

\* C1: a request the PDP denies is never handed to perform_request: the
\* executor's call count for it stays zero, and the step that follows the
\* logged denial returns the shell to the menu with nothing executed.
C1_NoExecutionOnDeny ==
  [][/\ \A i \in DOMAIN evalHist' :
          ~evalHist'[i].verdict => CallsFor(execCalls', evalHist'[i].n) = {}
     /\ (pc = "logged" /\ ~decision) =>
          (pc' = "menu" /\ execCalls' = execCalls /\ store' = store)]_vars

C1_Witness ==
  /\ pc = "menu"
  /\ execCalls # <<>>
  /\ \E i \in DOMAIN evalHist : ~evalHist[i].verdict

\* C2: decide, then log, then act: whenever perform_request is called, the
\* PDP has already evaluated that very request to ALLOW and cli.log already
\* holds the record of that ALLOW; and a decision is logged only after the
\* PDP gave it.
C2_DecideLogAct ==
  [][/\ execCalls' # execCalls =>
          /\ Len(execCalls') = Len(execCalls) + 1
          /\ \E i \in DOMAIN evalHist :
               /\ evalHist[i].n = execCalls'[Len(execCalls')].n
               /\ evalHist[i].verdict
          /\ \E k \in DOMAIN cliLog :
               /\ cliLog[k].kind = "decision"
               /\ cliLog[k].n = execCalls'[Len(execCalls')].n
               /\ cliLog[k].verdict = "ALLOW"
     /\ \A k \in DOMAIN cliLog' :
          (k \notin DOMAIN cliLog /\ cliLog'[k].kind = "decision") =>
            \E i \in DOMAIN evalHist :
              /\ evalHist[i].n = cliLog'[k].n
              /\ Verdict(evalHist[i].verdict) = cliLog'[k].verdict]_vars

C2_Witness ==
  /\ Len(execCalls) = 2
  /\ execCalls[1].n # execCalls[2].n

\* C6: the executor is called with what the PDP evaluated: the operation is
\* the one action_map pairs with the evaluated action, the collection is the
\* request's resource, the payload is the one logged with the decision; menu
\* choice 5 is a read, and 6 a delete, on py_abac_policies.
PairedOp(a) ==
  CASE a = "read" -> "find"
    [] a = "create" -> "insert_one"
    [] a = "update" -> "update_many"
    [] a = "delete" -> "delete_many"

C6_ExecutesWhatWasEvaluated ==
  \A j \in DOMAIN execCalls :
    \E i \in DOMAIN evalHist, k \in DOMAIN cliLog :
      /\ evalHist[i].n = execCalls[j].n
      /\ evalHist[i].verdict
      /\ execCalls[j].op = PairedOp(evalHist[i].action)
      /\ execCalls[j].collection = evalHist[i].resource
      /\ execCalls[j].payload = evalHist[i].payload
      /\ cliLog[k].kind = "decision" /\ cliLog[k].n = execCalls[j].n
      /\ cliLog[k].payload = execCalls[j].payload
      /\ cliLog[k].action = evalHist[i].action
      /\ cliLog[k].resource = execCalls[j].collection
      /\ evalHist[i].menu = "5" =>
           evalHist[i].action = "read" /\ execCalls[j].collection = PolicyCollection
      /\ evalHist[i].menu = "6" =>
           evalHist[i].action = "delete" /\ execCalls[j].collection = PolicyCollection

C6_Witness ==
  \E i \in DOMAIN evalHist, j \in DOMAIN execCalls :
    /\ evalHist[i].menu = "6"
    /\ execCalls[j].n = evalHist[i].n
    /\ execCalls[j].op = "delete_many"
    /\ execCalls[j].payload = IdPayload("p1")

\* C8: cli.log is append-only and holds exactly one decision record, with the
\* verdict given, for every request the PDP has evaluated; but for the moment
\* between a decision and its logging, the decision records are as many as
\* the evaluations.
IsPrefix(s, t) ==
  /\ Len(s) <= Len(t)
  /\ \A k \in DOMAIN s : s[k] = t[k]

DecisionRecords(log) == {k \in DOMAIN log : log[k].kind = "decision"}

C8_OneRecordPerEvaluation ==
  [][/\ IsPrefix(cliLog, cliLog')
     /\ pc' # "decided" =>
          /\ Cardinality(DecisionRecords(cliLog')) = Len(evalHist')
          /\ \A i \in DOMAIN evalHist' :
               /\ Cardinality(DecisionRecordsFor(cliLog', evalHist'[i].n)) = 1
               /\ \A k \in DecisionRecordsFor(cliLog', evalHist'[i].n) :
                    cliLog'[k].verdict = Verdict(evalHist'[i].verdict)]_vars

C8_Witness ==
  /\ pc = "menu"
  /\ \E i, j \in DOMAIN evalHist : evalHist[i].verdict /\ ~evalHist[j].verdict
  /\ Cardinality(DecisionRecords(cliLog)) = 2

\* ---- the menu loop entered with any store (SpecMenu) ----

\* the candidates of the highest priority among cands
Highest(cands) == {p \in cands : \A q \in cands : q.priority <= p.priority}

\* C3: default deny: a request for which no stored policy is a candidate,
\* the empty store included, is denied and never reaches perform_request.
C3_DefaultDeny ==
  /\ \A i \in DOMAIN evalHist :
       evalHist[i].cands = {} =>
         /\ ~evalHist[i].verdict
         /\ CallsFor(execCalls, evalHist[i].n) = {}
  /\ (pc \in {"decided", "logged"} /\ {p \in store : Fits(p, req)} = {}) =>
       ~decision

C3_Witness ==
  /\ pc = "menu"
  /\ store # {}
  /\ \E i \in DOMAIN evalHist : evalHist[i].cands = {} /\ ~evalHist[i].verdict

\* C4: priority ordering: when one candidate has strictly the highest
\* priority the verdict is its effect, whatever the others say: ALLOW at 5
\* with DENY at 10 is denied, ALLOW at 10 with DENY at 5 is allowed.
C4_PriorityOrdering ==
  \A i \in DOMAIN evalHist :
    /\ \A p \in evalHist[i].cands :
         Highest(evalHist[i].cands) = {p} =>
           evalHist[i].verdict = (p.effect = "allow")
    /\ \A p, q \in evalHist[i].cands :
         (p.effect = "allow" /\ q.effect = "deny" /\ evalHist[i].cands = {p, q}) =>
           /\ (p.priority = 5 /\ q.priority = 10) => ~evalHist[i].verdict
           /\ (p.priority = 10 /\ q.priority = 5) => evalHist[i].verdict

C4_Witness ==
  \E i \in DOMAIN evalHist :
    \E p, q \in evalHist[i].cands :
      /\ p.effect = "allow" /\ p.priority = 10
      /\ q.effect = "deny" /\ q.priority = 5
      /\ evalHist[i].verdict
      /\ CallsFor(execCalls, evalHist[i].n) # {}

\* C5: tie-break: when the candidates of the highest priority differ in
\* effect the verdict is DENY, in whatever order the store enumerates them.
C5_TieBreakDeny ==
  \A i \in DOMAIN evalHist :
    (\E p, q \in Highest(evalHist[i].cands) : p.effect # q.effect) =>
      ~evalHist[i].verdict

C5_Witness ==
  /\ pc = "menu"
  /\ \E i \in DOMAIN evalHist :
       /\ \E p, q \in Highest(evalHist[i].cands) : p.effect # q.effect
       /\ ~evalHist[i].verdict

\* C7: administration goes through the PDP: the admin's menu choices 5 and 6
\* are evaluated as requests on py_abac_policies, the store changes only by
\* an operation the PDP allowed on that resource, and a deletion asked by the
\* admin that no policy matches is denied and leaves the store as it was.
C7_AdminThroughPDP ==
  [][/\ \A i \in DOMAIN evalHist' :
          evalHist'[i].menu \in {"5", "6"} =>
            /\ evalHist'[i].resource = PolicyCollection
            /\ evalHist'[i].role = "admin"
     /\ store' # store =>
          \E i \in DOMAIN evalHist :
            /\ evalHist[i].n = req.n
            /\ evalHist[i].resource = PolicyCollection
            /\ evalHist[i].action = "delete"
            /\ evalHist[i].verdict
            /\ evalHist[i].cands # {}
     /\ (pc = "logged" /\ req.menu = "6" /\ {p \in store : Fits(p, req)} = {}) =>
          (~decision /\ store' = store /\ execCalls' = execCalls /\ pc' = "menu")
    ]_vars

C7_Witness ==
  /\ pc = "menu"
  /\ store # {}
  /\ execCalls = <<>>
  /\ \E i \in DOMAIN evalHist :
       /\ evalHist[i].menu = "6"
       /\ evalHist[i].cands = {}
       /\ \E p \in store : evalHist[i].payload = IdPayload(p.uid)

\* ---- start-up, run after run, over every policy directory (SpecLoad) ----

\* the file load_policies visits in a step of its loop
Visited(f) == f \in pending /\ pending' = pending \ {f}

\* a file the load has to skip: malformed, or its uid is already stored
Bad(f) == dir[f] = Malformed \/ \E q \in store : q.uid = dir[f].uid

\* C9: the bulk load never aborts on a bad document: each turn of the loop
\* visits one file; a malformed file or one whose uid is already stored is
\* reported and leaves the store as it was, any other file is added; the
\* load ends only when every file was visited, so that whatever the order
\* every well-formed file's uid is stored in the end.
C9_LoadSkipsBadFiles ==
  [][/\ (pc = "loading" /\ pc' = "loading") =>
          \E f \in FileNames :
            /\ Visited(f)
            /\ Bad(f) => (store' = store /\ abacLog' = abacLog \cup {Skipped(f)})
            /\ ~Bad(f) => (store' = store \cup {dir[f]} /\ abacLog' = abacLog)
     /\ (pc = "loading" /\ pc' = "menu") =>
          /\ pending = {}
          /\ \A f \in FileNames :
               dir[f] # Malformed => \E q \in store' : q.uid = dir[f].uid
          /\ \A f \in FileNames :
               dir[f] \notin store' => Skipped(f) \in abacLog']_vars

C9_Witness ==
  /\ pc = "menu"
  /\ runs = 1
  /\ \E f, g \in FileNames :
       /\ dir[f] = Malformed /\ Skipped(f) \in abacLog
       /\ dir[g] \in store /\ Skipped(g) \notin abacLog
       /\ \E q \in store : q # dir[g]

\* C10: start-up is idempotent: once a start-up has completed, running it
\* again on the same directory leaves the recorded migration version and the
\* stored policies as they were; and no uid is ever stored twice.
C10_StartupIdempotent ==
  [][/\ (settled /\ pc \in {"init", "loading"}) =>
          (version' = version /\ store' = store)
     /\ (settled /\ pc = "loading" /\ pc' = "menu") =>
          version' = NumMigrations
     /\ UniqueUids(store')]_vars

C10_Witness ==
  /\ runs = 2
  /\ pc = "menu"
  /\ store # {}
  /\ \E f \in FileNames : dir[f] = Malformed
  /\ \E k \in DOMAIN cliLog : cliLog[k].kind = "exit"

\* ---- one run of the program on a fresh database (Spec), continued ----

\* the migration step of this run failed: the process ended short of the
\* latest version
MigrationFailed(p, v) == p = "crashed" /\ v < NumMigrations

\* C11: migrations complete before anything is served: no file is loaded, no
\* request evaluated and no operation executed before the migration step has
\* brought the store to the latest version; the step either completes and
\* the load follows, or fails and ends the process, which then has evaluated
\* nothing and executed nothing and does nothing more.
C11_MigrateBeforeServe ==
  [][/\ (store' # store \/ abacLog' # abacLog \/ evalHist' # evalHist
           \/ execCalls' # execCalls) =>
          (version = NumMigrations /\ version' = version)
     /\ pc = "init" =>
          \/ pc' = "loading" /\ version' = NumMigrations
          \/ MigrationFailed(pc', version')
     /\ version' # version => pc = "init"
     /\ MigrationFailed(pc', version') =>
          (evalHist' = <<>> /\ execCalls' = <<>> /\ store' = {} /\ abacLog' = {})
     /\ ~MigrationFailed(pc, version)]_vars

C11_Witness ==
  /\ MigrationFailed(pc, version)
  /\ \E k \in DOMAIN cliLog : cliLog[k].kind = "login"
  /\ evalHist = <<>>

\* the records of the given kind cli.log holds for request n
RecordsFor(log, kind, n) ==
  {k \in DOMAIN log : log[k].kind = kind /\ log[k].n = n}

====
